---- MODULE Spec2Model ----
(***************************************************************************)
(* Directory verification handlers of valify-ldap-api.                     *)
(*                                                                         *)
(*   AUTH    src/unnamed/part_000          bind, search, re-bind as user   *)
(*   VERIFY  src/api/ldap-verify.js        multi-strategy search + ranking *)
(*   DEBUG   src/unnamed/part_001:1-199    single search, attribute chains *)
(*   SIMPLE  src/unnamed/part_001:201-279  single search                   *)
(*                                                                         *)
(* A JavaScript string is a sequence of one-character strings, "" is <<>>, *)
(* and undefined is UNDEF.  Every variable is a function over the requests,*)
(* one slot per request: a handler invocation owns its locals.             *)
(***************************************************************************)
EXTENDS Integers, Sequences, FiniteSets, TLC

VARIABLES
    kind,        \* which handler serves the request ("none" before it arrives)
    inp,         \* req.method and the fields read from req.body
    pc,          \* where the handler is suspended
    conn,        \* bind state of the request's ldapjs client
    strat,       \* VERIFY: loop index i into searchStrategies, 1-based
    entries,     \* entries delivered by the search in progress, by record id
    user,        \* AUTH: the `user` local, a record id, 0 for null
    allResults,  \* VERIFY: the allResults array, by record id
    stale,       \* a search stream that emitted 'error' and may still emit 'end'
    nfail,       \* number of searches of the request that failed so far
    seen,        \* ids of the records any search of the request delivered so far
    ops,         \* directory operations issued by the request, in order
    resp         \* responses written to res, in order

vars == <<kind, inp, pc, conn, strat, entries, user, allResults, stale, nfail, seen,
          ops, resp>>

----------------------------------------------------------------------------
(* Bounds *)

\* Most 'searchEntry' events one search stream delivers.
MaxEntries == 2

----------------------------------------------------------------------------
(* JavaScript values *)

UNDEF == <<"undefined">>

\* Truthiness of a string-or-undefined value: undefined and "" are falsy.
Truthy(v) == v # UNDEF /\ v # <<>>

LowerChar(c) ==
    CASE c = "A" -> "a"
      [] c = "B" -> "b"
      [] c = "L" -> "l"
      [] c = "U" -> "u"
      [] OTHER -> c

ToLowerCase(s) == [k \in 1..Len(s) |-> LowerChar(s[k])]

\* String.prototype.includes
Includes(s, t) ==
    \E k \in 0..(Len(s) - Len(t)) : SubSeq(s, k + 1, k + Len(t)) = t

RECURSIVE TrimStart(_)
TrimStart(s) ==
    IF s # <<>> /\ Head(s) = " " THEN TrimStart(Tail(s)) ELSE s

RECURSIVE TrimEnd(_)
TrimEnd(s) ==
    IF s # <<>> /\ s[Len(s)] = " " THEN TrimEnd(SubSeq(s, 1, Len(s) - 1)) ELSE s

\* String.prototype.trim
Trim(s) == TrimEnd(TrimStart(s))

\* a || b || ... : the first truthy operand, else the last operand.
RECURSIVE OrChain(_)
OrChain(vs) ==
    IF Len(vs) = 1 \/ Truthy(Head(vs)) THEN Head(vs) ELSE OrChain(Tail(vs))

\* Literals of the source, as character sequences.
NA == <<"N", "/", "A">>
NameNotAvailable ==
    <<"N", "a", "m", "e", " ", "n", "o", "t", " ", "a", "v", "a", "i", "l", "a", "b", "l", "e">>
NotProvided == <<"N", "o", "t", " ", "p", "r", "o", "v", "i", "d", "e", "d">>
NotSpecified == <<"N", "o", "t", " ", "s", "p", "e", "c", "i", "f", "i", "e", "d">>

----------------------------------------------------------------------------
(* The directory: the records a search may deliver as entry.object. *)

EmailA   == <<"a", "@", "c">>
EmailAUp == <<"A", "@", "c">>
EmailB   == <<"b", "@", "c">>
UidU     == <<"u", "1">>
UidUUp   == <<"U", "1">>
NameAl   == <<"a", "l">>
DnOne    == <<"d", "1">>
DnTwo    == <<"d", "2">>
DnThree  == <<"d", "3">>

\* Record 1 and record 3 carry the same dn with different attributes (the
\* directory changed between two searches); record 2 matches by uid and name
\* only; record 4 has an empty mail and a blank displayName.
Directory ==
    <<  [dn |-> DnOne, mail |-> EmailAUp, cn |-> <<"A", "l", " ", "A">>],
        [dn |-> DnTwo, mail |-> EmailB, uid |-> UidUUp,
         displayName |-> <<"B", " ", "A", "l">>, cn |-> <<"b">>],
        [dn |-> DnOne, userPrincipalName |-> EmailA, givenName |-> <<"A", "l">>],
        [dn |-> DnThree, mail |-> <<>>, email |-> EmailA, displayName |-> <<" ">>,
         sn |-> <<"B">>]  >>

RecordIds == 1..Len(Directory)

DnFour == <<"d", "4">>

\* Further records a profile may have to be built from: record 5 has no
\* name-bearing attribute, record 6 a blank cn, record 7 only the parts of a
\* name, record 8 only the generic name.
Profiles ==
    <<  [dn |-> DnFour, mail |-> EmailA],
        [dn |-> DnFour, mail |-> EmailA, cn |-> <<" ">>, displayName |-> <<"A", "l">>],
        [dn |-> DnFour, mail |-> EmailA, givenName |-> <<"A", "l">>, sn |-> <<"B">>],
        [dn |-> DnFour, email |-> EmailA, name |-> <<"A", "l">>]  >>

AllRecords == Directory \o Profiles

ProfileIds == 1..Len(AllRecords)

\* obj.attr of an entry.object
Attr(id, a) == IF a \in DOMAIN AllRecords[id] THEN AllRecords[id][a] ELSE UNDEF

Dn(id) == Attr(id, "dn")

----------------------------------------------------------------------------
(* Search filters: the text handed to client.search as opts.filter *)

\* The text of the attribute names and values the filter templates spell out.
T_mail == <<"m", "a", "i", "l">>
T_userPrincipalName == <<"u", "s", "e", "r", "P", "r", "i", "n", "c", "i", "p", "a", "l", "N", "a", "m", "e">>
T_emailAddress == <<"e", "m", "a", "i", "l", "A", "d", "d", "r", "e", "s", "s">>
T_email == <<"e", "m", "a", "i", "l">>
T_uid == <<"u", "i", "d">>
T_sAMAccountName == <<"s", "A", "M", "A", "c", "c", "o", "u", "n", "t", "N", "a", "m", "e">>
T_username == <<"u", "s", "e", "r", "n", "a", "m", "e">>
T_userId == <<"u", "s", "e", "r", "I", "d">>
T_cn == <<"c", "n">>
T_displayName == <<"d", "i", "s", "p", "l", "a", "y", "N", "a", "m", "e">>
T_givenName == <<"g", "i", "v", "e", "n", "N", "a", "m", "e">>
T_sn == <<"s", "n">>
T_objectClass == <<"o", "b", "j", "e", "c", "t", "C", "l", "a", "s", "s">>
T_person == <<"p", "e", "r", "s", "o", "n">>
T_inetOrgPerson == <<"i", "n", "e", "t", "O", "r", "g", "P", "e", "r", "s", "o", "n">>

\* `(${attr}=${v})`: one item of a template literal, v interpolated as it is
Item(attr, v) == <<"(">> \o attr \o <<"=">> \o v \o <<")">>

\* `*${v}*`
Star(v) == <<"*">> \o v \o <<"*">>

\* Index of the first " " of s at or after i, Len(s) + 1 when there is none.
RECURSIVE NextSpace(_, _)
NextSpace(s, i) ==
    IF i > Len(s) THEN i ELSE IF s[i] = " " THEN i ELSE NextSpace(s, i + 1)

\* Index of the last " " of s at or before i, 0 when there is none.
RECURSIVE PrevSpace(_, _)
PrevSpace(s, i) ==
    IF i = 0 THEN 0 ELSE IF s[i] = " " THEN i ELSE PrevSpace(s, i - 1)

\* name.split(' ')[0]
FirstWord(s) == SubSeq(s, 1, NextSpace(s, 1) - 1)

\* name.split(' ').slice(-1)[0]
LastWord(s) == SubSeq(s, PrevSpace(s, Len(s)) + 1, Len(s))

\* ldap-verify.js:56
emailFilter(email) ==
    <<"(", "|">> \o Item(T_mail, email) \o Item(T_userPrincipalName, email)
    \o Item(T_emailAddress, email) \o Item(T_email, email) \o <<")">>

\* ldap-verify.js:62
uidFilter(uid) ==
    <<"(", "|">> \o Item(T_uid, uid) \o Item(T_sAMAccountName, uid)
    \o Item(T_username, uid) \o Item(T_userId, uid) \o Item(T_cn, uid) \o <<")">>

\* ldap-verify.js:69
nameFilter(name) ==
    <<"(", "|">> \o Item(T_cn, Star(name)) \o Item(T_displayName, Star(name))
    \o Item(T_givenName, Star(FirstWord(name))) \o Item(T_sn, Star(LastWord(name)))
    \o <<")">>

\* ldap-verify.js:75-77
combinedFilter(email, uid, name) ==
    <<"(", "&">> \o Item(T_objectClass, T_person)
    \o <<"(", "|">> \o Item(T_mail, email) \o Item(T_userPrincipalName, email)
    \o (IF Truthy(uid) THEN Item(T_uid, uid) \o Item(T_sAMAccountName, uid) ELSE <<>>)
    \o (IF Truthy(name) THEN Item(T_cn, Star(name)) ELSE <<>>)
    \o <<")", ")">>

\* part_000:40-43
loginFilter(username) ==
    <<"(", "|">> \o Item(T_uid, username) \o Item(T_cn, username)
    \o Item(T_mail, username) \o Item(T_sAMAccountName, username) \o <<")">>

\* part_001:46 and part_001:226
mailFilter(email) ==
    <<"(", "&">> \o Item(T_mail, email) \o Item(T_objectClass, T_inetOrgPerson)
    \o <<")">>

----------------------------------------------------------------------------
(* VERIFY: strategy planning, accumulation, ranking, profile *)

searchStrategiesNameFirst(email, uid, name) ==
    <<[name |-> "Email Search", filter |-> emailFilter(email)]>>
    \o (IF Truthy(name)
        THEN <<[name |-> "Name Search", filter |-> nameFilter(name)]>> ELSE <<>>)
    \o (IF Truthy(uid)
        THEN <<[name |-> "UID Search", filter |-> uidFilter(uid)]>> ELSE <<>>)
    \o <<[name |-> "Combined Search", filter |-> combinedFilter(email, uid, name)]>>

\* The searchStrategies array: each strategy's `name` and `filter`.
searchStrategies(email, uid, name) ==
    <<[name |-> "Email Search", filter |-> emailFilter(email)]>>
    \o (IF Truthy(uid)
        THEN <<[name |-> "UID Search", filter |-> uidFilter(uid)]>> ELSE <<>>)
    \o (IF Truthy(name)
        THEN <<[name |-> "Name Search", filter |-> nameFilter(name)]>> ELSE <<>>)
    \o <<[name |-> "Combined Search", filter |-> combinedFilter(email, uid, name)]>>

\* allResults.find(existing => existing.dn === result.dn)
FindByDn(all, id) == \E k \in 1..Len(all) : Dn(all[k]) = Dn(id)

\* results.forEach(result => { if (!allResults.find(...)) allResults.push(result) })
RECURSIVE MergeSkipsDedup(_, _)
MergeSkipsDedup(all, results) ==
    IF results = <<>> THEN all
    ELSE MergeSkipsDedup(Append(all, Head(results)), Tail(results))

RECURSIVE Merge(_, _)
Merge(all, results) ==
    IF results = <<>> THEN all
    ELSE Merge(IF FindByDn(all, Head(results)) THEN all
               ELSE Append(all, Head(results)),
               Tail(results))

EmailMatch(id, email) ==
    LET emailFields == <<Attr(id, "mail"), Attr(id, "userPrincipalName"),
                         Attr(id, "emailAddress"), Attr(id, "email")>>
        Hit(field) == Truthy(field) /\ ToLowerCase(field) = ToLowerCase(email)
    IN  \E k \in 1..Len(emailFields) : Hit(emailFields[k])

UidMatch(id, uid) ==
    LET uidFields == <<Attr(id, "uid"), Attr(id, "sAMAccountName"),
                       Attr(id, "username"), Attr(id, "userId")>>
        Hit(field) == Truthy(field) /\ ToLowerCase(field) = ToLowerCase(uid)
    IN  Truthy(uid) /\ \E k \in 1..Len(uidFields) : Hit(uidFields[k])

NameMatchExact(id, name) ==
    LET nameFields == <<Attr(id, "cn"), Attr(id, "displayName"), Attr(id, "name")>>
        Hit(field) == Truthy(field) /\ ToLowerCase(field) = ToLowerCase(name)
    IN  Truthy(name) /\ \E k \in 1..Len(nameFields) : Hit(nameFields[k])

NameMatch(id, name) ==
    LET nameFields == <<Attr(id, "cn"), Attr(id, "displayName"), Attr(id, "name")>>
        Hit(field) == Truthy(field) /\ Includes(ToLowerCase(field), ToLowerCase(name))
    IN  Truthy(name) /\ \E k \in 1..Len(nameFields) : Hit(nameFields[k])

EmailScoreLow(id, email) == IF EmailMatch(id, email) THEN 50 ELSE 0

EmailScore(id, email) == IF EmailMatch(id, email) THEN 100 ELSE 0

\* The map callback of rankedResults: { employee, score, reasons }
Rank(id, email, uid, name) ==
    [employee |-> id,
     score    |-> EmailScore(id, email)
                  + (IF UidMatch(id, uid) THEN 50 ELSE 0)
                  + (IF NameMatch(id, name) THEN 25 ELSE 0),
     reasons  |-> (IF EmailMatch(id, email) THEN <<"exact email match">> ELSE <<>>)
                  \o (IF UidMatch(id, uid) THEN <<"exact UID match">> ELSE <<>>)
                  \o (IF NameMatch(id, name) THEN <<"name match">> ELSE <<>>)]

RECURSIVE InsertRankedBeforeTies(_, _)
InsertRankedBeforeTies(x, sorted) ==
    IF sorted = <<>> THEN <<x>>
    ELSE IF Head(sorted).score > x.score
         THEN <<Head(sorted)>> \o InsertRankedBeforeTies(x, Tail(sorted))
         ELSE <<x>> \o sorted

\* Insertion point of x in a sequence sorted by descending score: behind
\* every element whose score is at least x.score (Array.prototype.sort is
\* stable).
RECURSIVE InsertRanked(_, _)
InsertRanked(x, sorted) ==
    IF sorted = <<>> THEN <<x>>
    ELSE IF Head(sorted).score >= x.score
         THEN <<Head(sorted)>> \o InsertRanked(x, Tail(sorted))
         ELSE <<x>> \o sorted

\* .sort((a, b) => b.score - a.score): each element in turn is inserted into
\* the sorted prefix.
RECURSIVE SortInto(_, _)
SortInto(sorted, rest) ==
    IF rest = <<>> THEN sorted
    ELSE SortInto(InsertRanked(Head(rest), sorted), Tail(rest))

SortRanked(rs) == SortInto(<<>>, rs)

\* allResults.map(employee => ...)
RECURSIVE MapRank(_, _, _, _)
MapRank(all, email, uid, name) ==
    IF all = <<>> THEN <<>>
    ELSE <<Rank(Head(all), email, uid, name)>> \o MapRank(Tail(all), email, uid, name)

rankedResults(all, email, uid, name) == SortRanked(MapRank(all, email, uid, name))

\* `${a || ''} ${b || ''}`.trim()
Composed(a, b) ==
    Trim((IF Truthy(a) THEN a ELSE <<>>) \o <<" ">> \o (IF Truthy(b) THEN b ELSE <<>>))

processedEmployee(id, email) ==
    [id         |-> OrChain(<<Attr(id, "employeeNumber"), Attr(id, "employeeId"),
                              Attr(id, "empId"), Attr(id, "uid"),
                              Attr(id, "sAMAccountName"), NA>>),
     name       |-> OrChain(<<Attr(id, "displayName"), Attr(id, "cn"), Attr(id, "name"),
                              Composed(Attr(id, "givenName"), Attr(id, "sn")), NA>>),
     email      |-> OrChain(<<Attr(id, "mail"), Attr(id, "userPrincipalName"),
                              Attr(id, "emailAddress"), Attr(id, "email"), email>>),
     department |-> OrChain(<<Attr(id, "department"), Attr(id, "ou"),
                              Attr(id, "departmentNumber"), Attr(id, "dept"),
                              Attr(id, "division"), NA>>),
     title      |-> OrChain(<<Attr(id, "title"), Attr(id, "jobTitle"),
                              Attr(id, "position"), Attr(id, "role"), NA>>),
     manager    |-> OrChain(<<Attr(id, "manager"), Attr(id, "managedBy"),
                              Attr(id, "supervisorName"), NA>>),
     phone      |-> OrChain(<<Attr(id, "telephoneNumber"), Attr(id, "phone"),
                              Attr(id, "mobile"), NA>>),
     office     |-> OrChain(<<Attr(id, "physicalDeliveryOfficeName"), Attr(id, "l"), NA>>),
     employeeType |-> OrChain(<<Attr(id, "employeeType"), NA>>),
     lastLogon  |-> OrChain(<<Attr(id, "lastLogon"), NA>>)]

----------------------------------------------------------------------------
(* DEBUG and SIMPLE: profile *)

getName(id, name) ==
    OrChain(<<Attr(id, "cn"), Attr(id, "displayName"), Attr(id, "name"),
              Composed(OrChain(<<Attr(id, "givenName"), Attr(id, "firstName")>>),
                       OrChain(<<Attr(id, "sn"), Attr(id, "lastName")>>)),
              name, NameNotAvailable>>)

employeeData(id, email, name) ==
    [name       |-> getName(id, name),
     email      |-> OrChain(<<Attr(id, "mail"), Attr(id, "email"), email>>),
     employeeId |-> OrChain(<<Attr(id, "employeeNumber"), Attr(id, "employeeId"),
                              Attr(id, "uid"), NotProvided>>),
     department |-> OrChain(<<Attr(id, "ou"), Attr(id, "department"),
                              Attr(id, "departmentNumber"), NotSpecified>>),
     title      |-> OrChain(<<Attr(id, "title"), Attr(id, "jobTitle"), NotSpecified>>),
     manager    |-> OrChain(<<Attr(id, "manager"), Attr(id, "managedBy"), NotSpecified>>)]

simpleEmployee(id) ==
    [name       |-> Attr(id, "cn"),
     email      |-> Attr(id, "mail"),
     employeeId |-> OrChain(<<Attr(id, "employeeNumber"), NA>>),
     department |-> OrChain(<<Attr(id, "ou"), NotSpecified>>),
     title      |-> OrChain(<<Attr(id, "title"), NotSpecified>>),
     manager    |-> OrChain(<<Attr(id, "manager"), NotSpecified>>)]

----------------------------------------------------------------------------
(* Requests, configuration and responses *)

Reqs == {1, 2}

Methods == {"POST", "GET", "OPTIONS"}

\* process.env.LDAP_BIND_DN and the service password
ServiceDn == <<"s", "v", "c">>
ServiceSecret == <<"s", "p", "w">>

\* err.message of a failed bind, and of a failed search
BindErrors == {"InvalidCredentials", "ProtocolError", "ConnectionError"}
SearchErrors == {"SizeLimitExceeded", "TimeLimitExceeded", "NoSuchObject"}

\* The errors by which the directory ends a search that ran into sizeLimit
\* or timeLimit.
LimitErrors == {"SizeLimitExceeded", "TimeLimitExceeded"}

NoEmployee == [f \in {} |-> <<>>]

\* What a caller observes of one res.status(..).json(..) / res.json(..) /
\* res.status(..).end(): the status, the keys of the body and their values.
Response(status, keys) ==
    [status |-> status, keys |-> keys, verified |-> "absent", error |-> "",
     details |-> <<>>, employee |-> NoEmployee, user |-> 0, score |-> 0,
     reasons |-> <<>>, totalResults |-> 0, strategiesUsed |-> 0]

Preflight == Response(200, {})

MethodNotAllowed == [Response(405, {"error"}) EXCEPT !.error = "Method not allowed"]

MissingCredentials ==
    [Response(400, {"error"}) EXCEPT !.error = "Username and password are required"]

MissingEmail ==
    [Response(400, {"error"}) EXCEPT !.error = "Missing email in request body"]

AuthBindFailedGeneric(msg) ==
    [Response(401, {"error"}) EXCEPT !.error = "Invalid credentials"]

AuthBindFailed(msg) ==
    [Response(500, {"error", "details"}) EXCEPT
        !.error = "LDAP bind failed", !.details = <<msg>>]

AuthSearchFailed(msg) ==
    [Response(500, {"error", "details"}) EXCEPT
        !.error = "LDAP search failed", !.details = <<msg>>]

UserNotFound == [Response(401, {"error"}) EXCEPT !.error = "User not found"]

InvalidCredentials == [Response(401, {"error"}) EXCEPT !.error = "Invalid credentials"]

AuthSuccess(id) == [Response(200, {"success", "user"}) EXCEPT !.user = id]

VerifyNotFoundVerified(n) ==
    [Response(200, {"verified", "employee", "searchDetails", "debugging"}) EXCEPT
        !.verified = "true", !.strategiesUsed = n]

\* ldap-verify.js:199-217
VerifyNotFound(n) ==
    [Response(200, {"verified", "error", "searchDetails", "debugging"}) EXCEPT
        !.verified = "false", !.error = "Employee not found in company directory",
        !.strategiesUsed = n]

\* ldap-verify.js:253-299
VerifyFound(bestMatch, email, total, n) ==
    [Response(200, {"verified", "employee", "ldapQuery", "debug"}) EXCEPT
        !.verified = "true",
        !.employee = processedEmployee(bestMatch.employee, email),
        !.user = bestMatch.employee,
        !.score = bestMatch.score,
        !.reasons = bestMatch.reasons,
        !.totalResults = total,
        !.strategiesUsed = n]

\* ldap-verify.js:314-326
VerifyFailed(msg) ==
    [Response(500, {"verified", "error", "details", "timestamp", "troubleshooting"})
     EXCEPT !.verified = "false", !.error = "LDAP server connection failed",
            !.details = <<"LDAP bind failed: ", msg>>]

\* part_001:98-106 and part_001:245-249
LookupNotFound(k) ==
    [Response(200, IF k = "debug" THEN {"verified", "error", "searchDetails"}
                   ELSE {"verified", "error", "ldapQuery"}) EXCEPT
        !.verified = "false", !.error = "Employee not found in company directory"]

\* part_001:109-178 and part_001:252-268
LookupFound(k, results, email, name) ==
    LET employee == results[1] IN
    [Response(200, IF k = "debug" THEN {"verified", "employee", "ldapQuery", "debug"}
                   ELSE {"verified", "employee", "ldapQuery"}) EXCEPT
        !.verified = "true",
        !.employee = IF k = "debug" THEN employeeData(employee, email, name)
                     ELSE simpleEmployee(employee),
        !.user = employee,
        !.totalResults = IF k = "debug" THEN Len(results) ELSE 0]

\* part_001:187-197 and part_001:273-277
LookupFailed(k, msg) ==
    [Response(500, IF k = "debug"
                   THEN {"verified", "error", "details", "troubleshooting"}
                   ELSE {"verified", "error", "details"}) EXCEPT
        !.verified = "false", !.error = "LDAP server connection failed",
        !.details = <<msg>>]

\* One directory operation of a request.  res is "pending" until the
\* callback of a bind arrives, then "ok" or the error message.
\* A search carries the strategy's name in res and the filter it sends.
BindOp(dn, secret) ==
    [op |-> "bind", dn |-> dn, secret |-> secret, res |-> "pending", filter |-> <<>>]
SearchOp(name, filter) ==
    [op |-> "search", dn |-> <<>>, secret |-> <<>>, res |-> name, filter |-> filter]
UnbindOp ==
    [op |-> "unbind", dn |-> <<>>, secret |-> <<>>, res |-> "ok", filter |-> <<>>]

\* createClient options: only ldap-verify.js:33 sets `reconnect: true`.
Reconnects(k) == k = "verify"

\* The connection attempt a client makes by itself: with `reconnect` set,
\* ldapjs connects again whenever the connection is lost other than by unbind.
ConnectOp ==
    [op |-> "connect", dn |-> <<>>, secret |-> <<>>, res |-> "pending", filter |-> <<>>]

\* What the client of a handler of kind k does by itself when an operation
\* ends with err: the pending callbacks get the ConnectionError of a closed
\* connection, and a reconnecting client starts the next connection.
Reestablish(k, err) ==
    IF Reconnects(k) /\ err = "ConnectionError" THEN <<ConnectOp>> ELSE <<>>

\* One search per strategy of a plan.
RECURSIVE SearchOps(_)
SearchOps(plan) ==
    IF plan = <<>> THEN <<>>
    ELSE <<SearchOp(Head(plan).name, Head(plan).filter)>> \o SearchOps(Tail(plan))

\* The last operation of a log with its result filled in.
Settle(log, result) == [log EXCEPT ![Len(log)].res = result]

Body(method, email, name, uid, username, password) ==
    [method |-> method, email |-> email, name |-> name, uid |-> uid,
     username |-> username, password |-> password]

NoBody == Body("", <<>>, <<>>, <<>>, <<>>, <<>>)

TypeOK ==
    /\ kind \in [Reqs -> {"none", "auth", "verify", "debug", "simple"}]
    /\ pc \in [Reqs -> {"idle", "bind", "search", "stream", "rebind", "done", "crashed"}]
    /\ conn \in [Reqs -> {"NoClient", "Unbound", "ServiceBound", "UserBound", "Anonymous"}]
    /\ strat \in [Reqs -> 0..4]
    /\ user \in [Reqs -> {0} \cup RecordIds]
    /\ stale \in [Reqs -> BOOLEAN]
    /\ \A r \in Reqs : Len(entries[r]) <= MaxEntries

Init ==
    /\ kind = [r \in Reqs |-> "none"]
    /\ inp = [r \in Reqs |-> NoBody]
    /\ pc = [r \in Reqs |-> "idle"]
    /\ conn = [r \in Reqs |-> "NoClient"]
    /\ strat = [r \in Reqs |-> 0]
    /\ entries = [r \in Reqs |-> <<>>]
    /\ user = [r \in Reqs |-> 0]
    /\ allResults = [r \in Reqs |-> <<>>]
    /\ stale = [r \in Reqs |-> FALSE]
    /\ nfail = [r \in Reqs |-> 0]
    /\ seen = [r \in Reqs |-> {}]
    /\ ops = [r \in Reqs |-> <<>>]
    /\ resp = [r \in Reqs |-> <<>>]

----------------------------------------------------------------------------
(* Inputs a caller may send *)

Emails == {<<>>, EmailA, EmailB}
Uids == {<<>>, UidU}
Names == {<<>>, NameAl}
Usernames == {<<>>, UidU}
Passwords == {<<>>, <<"p">>}

\* Values that hold filter metacharacters, and a name of two words.
CraftedEmails == {<<"*">>, <<"a", ")", "(", "c", "n", "=", "*">>}
CraftedUids == {<<"\\", "2", "a">>, <<"u", ")">>}
CraftedNames == {<<"a", "l", " ", "a">>, <<"(", " ", "*">>}
CraftedUsernames == {<<"*">>, <<"u", "1", ")", "(", "c", "n", "=", "*">>}

Put(f, r, v) == [f EXCEPT ![r] = v]

----------------------------------------------------------------------------
(* AUTH: src/unnamed/part_000 *)

\* part_000:9-21: the response of a rejected request, << >> when accepted
AuthValidate(method, username, password) ==
    IF method = "OPTIONS" THEN <<Preflight>>
    ELSE IF method # "POST" THEN <<MethodNotAllowed>>
    ELSE IF ~Truthy(username) \/ ~Truthy(password) THEN <<MissingCredentials>>
    ELSE <<>>

\* part_000:3-34: validation, createClient, the service bind is issued
AuthAccept(r, m, u, p) ==
    LET rejected == AuthValidate(m, u, p) IN
    /\ kind' = Put(kind, r, "auth")
    /\ inp' = Put(inp, r, Body(m, <<>>, <<>>, <<>>, u, p))
    /\ IF rejected # <<>>
       THEN /\ resp' = Put(resp, r, rejected)
            /\ pc' = Put(pc, r, "done")
            /\ UNCHANGED <<conn, ops>>
       ELSE /\ conn' = Put(conn, r, "Unbound")
            /\ ops' = Put(ops, r, <<BindOp(ServiceDn, ServiceSecret)>>)
            /\ pc' = Put(pc, r, "bind")
            /\ UNCHANGED resp
    /\ UNCHANGED <<strat, entries, user, allResults, stale, nfail, seen>>

\* A request of a caller who sends plain values.
AuthHandler(r) ==
    /\ pc[r] = "idle"
    /\ \E m \in Methods, u \in Usernames, p \in Passwords : AuthAccept(r, m, u, p)

\* A request whose username may hold filter metacharacters.
AuthCrafted(r) ==
    /\ pc[r] = "idle"
    /\ \E u \in Usernames \cup CraftedUsernames, p \in Passwords :
         AuthAccept(r, "POST", u, p)

\* part_000:34-52: callback of the service bind; on success the search is issued
AuthBindCallback(r) ==
    /\ kind[r] = "auth" /\ pc[r] = "bind"
    /\ \E err \in {"ok"} \cup BindErrors :
         IF err # "ok"
         THEN /\ resp' = Put(resp, r, Append(resp[r], AuthBindFailed(err)))
              /\ ops' = Put(ops, r, Settle(ops[r], err) \o Reestablish(kind[r], err))
              /\ pc' = Put(pc, r, "done")
              /\ UNCHANGED conn
         ELSE /\ conn' = Put(conn, r, "ServiceBound")
              /\ ops' = Put(ops, r, Append(Settle(ops[r], "ok"),
                                           SearchOp("Login Search",
                                                    loginFilter(inp[r].username))))
              /\ pc' = Put(pc, r, "search")
              /\ UNCHANGED resp
    /\ UNCHANGED <<kind, inp, strat, entries, user, allResults, stale, nfail, seen>>

\* part_000:52-63: callback of client.search; listeners for 'searchEntry' and 'end'
AuthSearchCallback(r) ==
    /\ kind[r] = "auth" /\ pc[r] = "search"
    /\ \E err \in {"ok"} \cup SearchErrors :
         IF err # "ok"
         THEN /\ resp' = Put(resp, r, Append(resp[r], AuthSearchFailed(err)))
              /\ pc' = Put(pc, r, "done")
              /\ nfail' = Put(nfail, r, nfail[r] + 1)
              /\ UNCHANGED <<user, entries>>
         ELSE /\ user' = Put(user, r, 0)
              /\ entries' = Put(entries, r, <<>>)
              /\ pc' = Put(pc, r, "stream")
              /\ UNCHANGED <<resp, nfail>>
    /\ UNCHANGED <<kind, inp, conn, strat, allResults, stale, seen, ops>>

AuthSearchEntryKeepsFirst(r) ==
    /\ kind[r] = "auth" /\ pc[r] = "stream"
    /\ Len(entries[r]) < MaxEntries
    /\ \E id \in RecordIds :
         /\ user' = Put(user, r, IF user[r] = 0 THEN id ELSE user[r])
         /\ entries' = Put(entries, r, Append(entries[r], id))
         /\ seen' = Put(seen, r, seen[r] \cup {id})
    /\ UNCHANGED <<kind, inp, pc, conn, strat, allResults, stale, nfail, ops, resp>>

AuthSearchEntryShared(r) ==
    /\ kind[r] = "auth" /\ pc[r] = "stream"
    /\ Len(entries[r]) < MaxEntries
    /\ \E id \in RecordIds :
         /\ user' = [q \in Reqs |-> id]
         /\ entries' = Put(entries, r, Append(entries[r], id))
         /\ seen' = Put(seen, r, seen[r] \cup {id})
    /\ UNCHANGED <<kind, inp, pc, conn, strat, allResults, stale, nfail, ops, resp>>

\* part_000:59-61: user = entry.object
AuthSearchEntry(r) ==
    /\ kind[r] = "auth" /\ pc[r] = "stream"
    /\ Len(entries[r]) < MaxEntries
    /\ \E id \in RecordIds :
         /\ user' = Put(user, r, id)
         /\ entries' = Put(entries, r, Append(entries[r], id))
         /\ seen' = Put(seen, r, seen[r] \cup {id})
    /\ UNCHANGED <<kind, inp, pc, conn, strat, allResults, stale, nfail, ops, resp>>

\* part_000:63-68: 'end': no user -> 401, else the re-bind as user.dn is issued
AuthSearchEnd(r) ==
    /\ kind[r] = "auth" /\ pc[r] = "stream"
    /\ IF user[r] = 0
       THEN /\ resp' = Put(resp, r, Append(resp[r], UserNotFound))
            /\ pc' = Put(pc, r, "done")
            /\ UNCHANGED ops
       ELSE /\ ops' = Put(ops, r, Append(ops[r], BindOp(Dn(user[r]), inp[r].password)))
            /\ pc' = Put(pc, r, "rebind")
            /\ UNCHANGED resp
    /\ UNCHANGED <<kind, inp, conn, strat, entries, user, allResults, stale, nfail, seen>>

\* part_000:59-75 registers no 'error' listener: an 'error' event on the
\* stream throws out of emit, and nothing of the handler runs afterwards.
AuthSearchError(r) ==
    /\ kind[r] = "auth" /\ pc[r] = "stream"
    /\ pc' = Put(pc, r, "crashed")
    /\ nfail' = Put(nfail, r, nfail[r] + 1)
    /\ UNCHANGED <<kind, inp, conn, strat, entries, user, allResults, stale, seen, ops, resp>>

RebindVerdictIgnoresErr(err, id) == AuthSuccess(id)

\* part_000:69-73: the response of the re-bind callback
RebindVerdict(err, id) ==
    IF err # "ok" THEN InvalidCredentials ELSE AuthSuccess(id)

\* part_000:68-74: callback of the re-bind.  A failed bind leaves the
\* connection anonymous (RFC 4511, 4.2.1).
AuthRebindCallback(r) ==
    /\ kind[r] = "auth" /\ pc[r] = "rebind"
    /\ \E err \in {"ok"} \cup BindErrors :
         /\ resp' = Put(resp, r, Append(resp[r], RebindVerdict(err, user[r])))
         /\ ops' = Put(ops, r, Settle(ops[r], err))
         /\ conn' = Put(conn, r, IF err = "ok" THEN "UserBound" ELSE "Anonymous")
    /\ pc' = Put(pc, r, "done")
    /\ UNCHANGED <<kind, inp, strat, entries, user, allResults, stale, nfail, seen>>

AuthStep(r) ==
    \/ AuthHandler(r)
    \/ AuthBindCallback(r)
    \/ AuthSearchCallback(r)
    \/ AuthSearchEntry(r)
    \/ AuthSearchEnd(r)
    \/ AuthSearchError(r)
    \/ AuthRebindCallback(r)

----------------------------------------------------------------------------
(* VERIFY: src/api/ldap-verify.js *)

\* ldap-verify.js:9-21, part_001:9-13, part_001:209-213
EmailValidate(method, email) ==
    IF method = "OPTIONS" THEN <<Preflight>>
    ELSE IF method # "POST" THEN <<MethodNotAllowed>>
    ELSE IF ~Truthy(email) THEN <<MissingEmail>>
    ELSE <<>>

AcceptClientFirst(r, k, body) ==
    LET rejected == EmailValidate(body.method, body.email) IN
    /\ kind' = Put(kind, r, k)
    /\ inp' = Put(inp, r, body)
    /\ conn' = Put(conn, r, "Unbound")
    /\ IF rejected # <<>>
       THEN /\ resp' = Put(resp, r, rejected)
            /\ pc' = Put(pc, r, "done")
            /\ UNCHANGED ops
       ELSE /\ ops' = Put(ops, r, <<BindOp(ServiceDn, ServiceSecret)>>)
            /\ pc' = Put(pc, r, "bind")
            /\ UNCHANGED resp
    /\ UNCHANGED <<strat, entries, user, allResults, stale, nfail, seen>>

\* Validation, createClient and the service bind of the three email handlers.
Accept(r, k, body) ==
    LET rejected == EmailValidate(body.method, body.email) IN
    /\ kind' = Put(kind, r, k)
    /\ inp' = Put(inp, r, body)
    /\ IF rejected # <<>>
       THEN /\ resp' = Put(resp, r, rejected)
            /\ pc' = Put(pc, r, "done")
            /\ UNCHANGED <<conn, ops>>
       ELSE /\ conn' = Put(conn, r, "Unbound")
            /\ ops' = Put(ops, r, <<BindOp(ServiceDn, ServiceSecret)>>)
            /\ pc' = Put(pc, r, "bind")
            /\ UNCHANGED resp
    /\ UNCHANGED <<strat, entries, user, allResults, stale, nfail, seen>>

\* ldap-verify.js:3-40
VerifyHandler(r) ==
    /\ pc[r] = "idle"
    /\ \E m \in Methods, e \in Emails, n \in Names, u \in Uids :
         Accept(r, "verify", Body(m, e, n, u, <<>>, <<>>))

\* ldap-verify.js:3-40: a request whose values may hold filter metacharacters
VerifyCrafted(r) ==
    /\ pc[r] = "idle"
    /\ \E e \in Emails \cup CraftedEmails, n \in Names \cup CraftedNames,
          u \in Uids \cup CraftedUids :
         Accept(r, "verify", Body("POST", e, n, u, <<>>, <<>>))

Plan(r) == searchStrategies(inp[r].email, inp[r].uid, inp[r].name)

\* ldap-verify.js:195-299: the response once every strategy has run
VerifyVerdict(all, body, n) ==
    IF Len(all) = 0 THEN VerifyNotFound(n)
    ELSE VerifyFound(rankedResults(all, body.email, body.uid, body.name)[1],
                     body.email, Len(all), n)

\* ldap-verify.js:166-299: the code behind `await new Promise(...)` once the
\* promise resolves with `results`: accumulate, then the next strategy's
\* search, or after the last strategy unbind, rank and respond.
VerifyResume(r, results) ==
    \E all \in {Merge(allResults[r], results)} :
        /\ allResults' = Put(allResults, r, all)
        /\ IF strat[r] < Len(Plan(r))
           THEN /\ strat' = Put(strat, r, strat[r] + 1)
                /\ ops' = Put(ops, r, Append(ops[r], SearchOp(Plan(r)[strat[r] + 1].name,
                                                           Plan(r)[strat[r] + 1].filter)))
                /\ pc' = Put(pc, r, "search")
                /\ entries' = Put(entries, r, <<>>)
                /\ UNCHANGED <<conn, resp>>
           ELSE /\ ops' = Put(ops, r, Append(ops[r], UnbindOp))
                /\ conn' = Put(conn, r, "Unbound")
                /\ resp' = Put(resp, r,
                               Append(resp[r], VerifyVerdict(all, inp[r], Len(Plan(r)))))
                /\ pc' = Put(pc, r, "done")
                /\ UNCHANGED <<strat, entries>>

VerifyBindCallbackSearchesAtOnce(r) ==
    /\ kind[r] = "verify" /\ pc[r] = "bind"
    /\ conn' = Put(conn, r, "ServiceBound")
    /\ strat' = Put(strat, r, 1)
    /\ ops' = Put(ops, r, Settle(ops[r], "ok") \o SearchOps(Plan(r)))
    /\ entries' = Put(entries, r, <<>>)
    /\ pc' = Put(pc, r, "search")
    /\ UNCHANGED <<kind, inp, user, allResults, stale, nfail, seen, resp>>

\* ldap-verify.js:40-49, 84-137, 301-326: callback of the service bind.
\* reject -> catch: unbind and the 500; resolve -> the first strategy's search.
VerifyBindCallback(r) ==
    /\ kind[r] = "verify" /\ pc[r] = "bind"
    /\ \E err \in {"ok"} \cup BindErrors :
         IF err # "ok"
         THEN /\ ops' = Put(ops, r, Append(Settle(ops[r], err)
                                           \o Reestablish(kind[r], err), UnbindOp))
              /\ resp' = Put(resp, r, Append(resp[r], VerifyFailed(err)))
              /\ pc' = Put(pc, r, "done")
              /\ UNCHANGED <<conn, strat, entries>>
         ELSE /\ conn' = Put(conn, r, "ServiceBound")
              /\ strat' = Put(strat, r, 1)
              /\ ops' = Put(ops, r, Append(Settle(ops[r], "ok"), SearchOp(Plan(r)[1].name,
                                                                  Plan(r)[1].filter)))
              /\ entries' = Put(entries, r, <<>>)
              /\ pc' = Put(pc, r, "search")
              /\ UNCHANGED resp
    /\ UNCHANGED <<kind, inp, user, allResults, stale, nfail, seen>>

\* ldap-verify.js:137-163: callback of client.search: err -> resolve([]).
\* The directory answers in order on the one connection: once the next
\* search is answered, the previous stream emits nothing more.
VerifySearchCallback(r) ==
    /\ kind[r] = "verify" /\ pc[r] = "search"
    /\ \E err \in {"ok"} \cup SearchErrors :
         IF err # "ok"
         THEN /\ VerifyResume(r, <<>>)
              /\ nfail' = Put(nfail, r, nfail[r] + 1)
         ELSE /\ pc' = Put(pc, r, "stream")
              /\ UNCHANGED <<conn, strat, entries, allResults, nfail, ops, resp>>
    /\ stale' = Put(stale, r, FALSE)
    /\ UNCHANGED <<kind, inp, user, seen>>

\* ldap-verify.js:144-148: entries.push(obj)
VerifySearchEntry(r) ==
    /\ kind[r] = "verify" /\ pc[r] = "stream"
    /\ Len(entries[r]) < MaxEntries
    /\ \E id \in RecordIds :
         /\ entries' = Put(entries, r, Append(entries[r], id))
         /\ seen' = Put(seen, r, seen[r] \cup {id})
    /\ UNCHANGED <<kind, inp, pc, conn, strat, user, allResults, stale, nfail, ops, resp>>

VerifySearchErrorRejects(r) ==
    /\ kind[r] = "verify" /\ pc[r] = "stream"
    /\ ops' = Put(ops, r, Append(ops[r], UnbindOp))
    /\ conn' = Put(conn, r, "Unbound")
    /\ resp' = Put(resp, r, Append(resp[r], VerifyFailed("SizeLimitExceeded")))
    /\ pc' = Put(pc, r, "done")
    /\ nfail' = Put(nfail, r, nfail[r] + 1)
    /\ stale' = Put(stale, r, TRUE)
    /\ UNCHANGED <<kind, inp, strat, entries, user, allResults, seen>>

\* ldap-verify.js:154-157: 'error' -> resolve(entries)
VerifySearchError(r) ==
    /\ kind[r] = "verify" /\ pc[r] = "stream"
    /\ VerifyResume(r, entries[r])
    /\ nfail' = Put(nfail, r, nfail[r] + 1)
    /\ stale' = Put(stale, r, TRUE)
    /\ UNCHANGED <<kind, inp, user, seen>>

\* ldap-verify.js:159-162: 'end' -> resolve(entries)
VerifySearchEnd(r) ==
    /\ kind[r] = "verify" /\ pc[r] = "stream"
    /\ VerifyResume(r, entries[r])
    /\ UNCHANGED <<kind, inp, user, stale, nfail, seen>>

\* ldap-verify.js:159-162, part_001:86-89, part_001:237: an 'end' event of a
\* stream whose promise is already settled by 'error': resolve does nothing.
LateEnd(r) ==
    /\ stale[r]
    /\ stale' = Put(stale, r, FALSE)
    /\ UNCHANGED <<kind, inp, pc, conn, strat, entries, user, allResults, nfail, seen,
                   ops, resp>>

VerifyStep(r) ==
    \/ VerifyHandler(r)
    \/ VerifyBindCallback(r)
    \/ VerifySearchCallback(r)
    \/ VerifySearchEntry(r)
    \/ VerifySearchError(r)
    \/ VerifySearchEnd(r)
    \/ LateEnd(r)

----------------------------------------------------------------------------
(* DEBUG and SIMPLE: src/unnamed/part_001 *)

\* part_001:3-33
DebugHandler(r) ==
    /\ pc[r] = "idle"
    /\ \E m \in Methods, e \in Emails, n \in Names :
         Accept(r, "debug", Body(m, e, n, <<>>, <<>>, <<>>))

\* part_001:203-222
SimpleHandler(r) ==
    /\ pc[r] = "idle"
    /\ \E m \in Methods, e \in Emails :
         Accept(r, "simple", Body(m, e, <<>>, <<>>, <<>>, <<>>))

\* part_001:3-33 and part_001:203-222: an email that may hold metacharacters
LookupCrafted(r) ==
    /\ pc[r] = "idle"
    /\ \E k \in {"debug", "simple"}, e \in Emails \cup CraftedEmails :
         Accept(r, k, Body("POST", e, <<>>, <<>>, <<>>, <<>>))

\* part_001:180-197 and part_001:270-277: the catch block
LookupCatch(r, msg) ==
    /\ conn' = Put(conn, r, "Unbound")
    /\ resp' = Put(resp, r, Append(resp[r], LookupFailed(kind[r], msg)))
    /\ pc' = Put(pc, r, "done")

\* part_001:32-68 and part_001:221-233: callback of the service bind
LookupBindCallback(r) ==
    /\ kind[r] \in {"debug", "simple"} /\ pc[r] = "bind"
    /\ \E err \in {"ok"} \cup BindErrors :
         IF err # "ok"
         THEN /\ LookupCatch(r, err)
              /\ ops' = Put(ops, r, Append(Settle(ops[r], err)
                                           \o Reestablish(kind[r], err), UnbindOp))
              /\ UNCHANGED entries
         ELSE /\ conn' = Put(conn, r, "ServiceBound")
              /\ ops' = Put(ops, r, Append(Settle(ops[r], "ok"),
                                           SearchOp("Mail Search",
                                                    mailFilter(inp[r].email))))
              /\ entries' = Put(entries, r, <<>>)
              /\ pc' = Put(pc, r, "search")
              /\ UNCHANGED resp
    /\ UNCHANGED <<kind, inp, strat, user, allResults, stale, nfail, seen>>

\* part_001:68-72 and part_001:233-234: callback of client.search: err -> reject
LookupSearchCallback(r) ==
    /\ kind[r] \in {"debug", "simple"} /\ pc[r] = "search"
    /\ \E err \in {"ok"} \cup SearchErrors :
         IF err # "ok"
         THEN /\ LookupCatch(r, err)
              /\ ops' = Put(ops, r, Append(ops[r], UnbindOp))
              /\ nfail' = Put(nfail, r, nfail[r] + 1)
         ELSE /\ pc' = Put(pc, r, "stream")
              /\ UNCHANGED <<conn, nfail, ops, resp>>
    /\ UNCHANGED <<kind, inp, strat, entries, user, allResults, stale, seen>>

\* part_001:74-79 and part_001:235
LookupSearchEntry(r) ==
    /\ kind[r] \in {"debug", "simple"} /\ pc[r] = "stream"
    /\ Len(entries[r]) < MaxEntries
    /\ \E id \in RecordIds :
         /\ entries' = Put(entries, r, Append(entries[r], id))
         /\ seen' = Put(seen, r, seen[r] \cup {id})
    /\ UNCHANGED <<kind, inp, pc, conn, strat, user, allResults, stale, nfail, ops, resp>>

\* part_001:81-84 and part_001:236: 'error' -> reject
LookupSearchError(r) ==
    /\ kind[r] \in {"debug", "simple"} /\ pc[r] = "stream"
    /\ \E err \in SearchErrors : LookupCatch(r, err)
    /\ ops' = Put(ops, r, Append(ops[r], UnbindOp))
    /\ nfail' = Put(nfail, r, nfail[r] + 1)
    /\ stale' = Put(stale, r, TRUE)
    /\ UNCHANGED <<kind, inp, strat, entries, user, allResults, seen>>

\* part_001:96-178 and part_001:244-268: the response after the search ended
LookupVerdict(k, results, body) ==
    IF Len(results) = 0 THEN LookupNotFound(k)
    ELSE LookupFound(k, results, body.email, body.name)

\* part_001:86-178 and part_001:237-268: 'end' -> resolve(entries), unbind, respond
LookupSearchEnd(r) ==
    /\ kind[r] \in {"debug", "simple"} /\ pc[r] = "stream"
    /\ ops' = Put(ops, r, Append(ops[r], UnbindOp))
    /\ conn' = Put(conn, r, "Unbound")
    /\ resp' = Put(resp, r, Append(resp[r], LookupVerdict(kind[r], entries[r], inp[r])))
    /\ pc' = Put(pc, r, "done")
    /\ UNCHANGED <<kind, inp, strat, entries, user, allResults, stale, nfail, seen>>

LookupStep(r) ==
    \/ DebugHandler(r)
    \/ SimpleHandler(r)
    \/ LookupBindCallback(r)
    \/ LookupSearchCallback(r)
    \/ LookupSearchEntry(r)
    \/ LookupSearchError(r)
    \/ LookupSearchEnd(r)

----------------------------------------------------------------------------
(* Specifications *)

\* One request, served by any of the handlers.
Next == AuthStep(1) \/ VerifyStep(1) \/ LookupStep(1)

Spec == Init /\ [][Next]_vars

\* Authentication requests running concurrently, callbacks interleaved.
NextAuth == \E r \in Reqs : AuthStep(r)

SpecAuth == Init /\ [][NextAuth]_vars

\* One request with crafted values against a directory that finds nothing:
\* every search ends, or fails, without an entry.
NextCrafted ==
    \/ AuthCrafted(1)
    \/ AuthBindCallback(1)
    \/ AuthSearchCallback(1)
    \/ AuthSearchEnd(1)
    \/ VerifyCrafted(1)
    \/ VerifyBindCallback(1)
    \/ VerifySearchCallback(1)
    \/ VerifySearchEnd(1)
    \/ LookupCrafted(1)
    \/ LookupBindCallback(1)
    \/ LookupSearchCallback(1)
    \/ LookupSearchEnd(1)

SpecCrafted == Init /\ [][NextCrafted]_vars

\* The operations a resolver has issued when its last search is streaming.
IssuedOps(k, body) ==
    <<[BindOp(ServiceDn, ServiceSecret) EXCEPT !.res = "ok"]>>
    \o (IF k = "verify"
        THEN SearchOps(searchStrategies(body.email, body.uid, body.name))
        ELSE <<SearchOp("Mail Search", mailFilter(body.email))>>)

\* Profile building as a function of the record and the request: request 1
\* is a resolver whose last search has delivered one record, any record of
\* AllRecords, after the earlier searches found nothing.
InitProfile ==
    \E k \in {"verify", "debug", "simple"}, id \in ProfileIds,
       e \in {EmailA, EmailB},
       n \in Names \cup {<<" ">>} :
        \E body \in {Body("POST", e, IF k = "simple" THEN <<>> ELSE n,
                          <<>>, <<>>, <<>>)} :
            /\ kind = [r \in Reqs |-> IF r = 1 THEN k ELSE "none"]
            /\ inp = [r \in Reqs |-> IF r = 1 THEN body ELSE NoBody]
            /\ pc = [r \in Reqs |-> IF r = 1 THEN "stream" ELSE "idle"]
            /\ conn = [r \in Reqs |-> IF r = 1 THEN "ServiceBound" ELSE "NoClient"]
            /\ strat = [r \in Reqs |-> IF r = 1 /\ k = "verify"
                                       THEN Len(searchStrategies(e, <<>>, n)) ELSE 0]
            /\ entries = [r \in Reqs |-> IF r = 1 THEN <<id>> ELSE <<>>]
            /\ user = [r \in Reqs |-> 0]
            /\ allResults = [r \in Reqs |-> <<>>]
            /\ stale = [r \in Reqs |-> FALSE]
            /\ nfail = [r \in Reqs |-> 0]
            /\ seen = [r \in Reqs |-> IF r = 1 THEN {id} ELSE {}]
            /\ ops = [r \in Reqs |-> IF r = 1 THEN IssuedOps(k, body) ELSE <<>>]
            /\ resp = [r \in Reqs |-> <<>>]

NextProfile == VerifySearchEnd(1) \/ LookupSearchEnd(1)

SpecProfile == InitProfile /\ [][NextProfile]_vars

----------------------------------------------------------------------------
(* Vocabulary of the properties *)

\* The request passed input validation: its client was created.
Accepted(r) == conn[r] # "NoClient"

\* The handler has nothing left to run.
Finished(r) == pc[r] \in {"done", "crashed"}

ServiceBindOk(r) == Len(ops[r]) >= 1 /\ ops[r][1].res = "ok"

ServiceBindFailed(r) == Len(ops[r]) >= 1 /\ ops[r][1].res \in BindErrors

Searches(r) == {k \in 1..Len(ops[r]) : ops[r][k].op = "search"}

\* The re-binds of a request: every bind after the first operation.
Rebinds(r) == {k \in 2..Len(ops[r]) : ops[r][k].op = "bind"}

Unbinds(r) == {k \in 1..Len(ops[r]) : ops[r][k].op = "unbind"}

\* Distinguished names of the records the request's searches delivered.
CandidateDns(r) == {Dn(id) : id \in seen[r]}

Range(q) == {q[k] : k \in 1..Len(q)}

\* What a caller can tell apart: status, body shape, reason text.
Observable(x) == <<x.status, x.keys, x.error>>

NotFoundText == "Employee not found in company directory"

----------------------------------------------------------------------------
(* C1 *)

\* C1: a request that passed validation and was answered does not hold a
\* bound connection: its connection is back to Unbound.
C1_ReleasedBeforeResponse ==
    \A r \in Reqs :
        (Accepted(r) /\ resp[r] # <<>>) => conn[r] = "Unbound"

----------------------------------------------------------------------------
(* C2 *)

\* C2: a request that passed validation never has two responses, and once
\* its handler has nothing left to run it has exactly one.
C2_ExactlyOneVerdict ==
    \A r \in Reqs :
        Accepted(r) =>
            /\ Len(resp[r]) <= 1
            /\ Finished(r) => Len(resp[r]) = 1

----------------------------------------------------------------------------
(* C3 *)

\* AUTH: the search stream ended normally.
AuthSearchEnded(r) ==
    /\ kind[r] = "auth" /\ pc[r] \in {"rebind", "done"}
    /\ Searches(r) # {} /\ nfail[r] = 0

\* C3: in AUTH, when the search ended with zero or more than one unique
\* candidate, no re-bind is issued and the response is the not-found one.
C3_AmbiguousIsNotFound ==
    \A r \in Reqs :
        (AuthSearchEnded(r) /\ Cardinality(CandidateDns(r)) # 1) =>
            /\ Rebinds(r) = {}
            /\ pc[r] = "done" => resp[r] = <<UserNotFound>>

----------------------------------------------------------------------------
(* C4 *)

IsAuthenticated(x) == x.status = 200 /\ "success" \in x.keys

\* C4: AUTH answers success only after the service bind succeeded, the
\* search delivered the record, and the bind as that record's dn with the
\* caller's password succeeded; a failed re-bind, whatever its error, is
\* answered by the one InvalidCredentials response.
C4_SuccessOnlyAfterRebind ==
    \A r \in Reqs :
        kind[r] = "auth" =>
            /\ \A k \in 1..Len(resp[r]) :
                 IsAuthenticated(resp[r][k]) =>
                    /\ ServiceBindOk(r)
                    /\ Searches(r) # {}
                    /\ user[r] \in seen[r]
                    /\ resp[r][k].user = user[r]
                    /\ ops[r][Len(ops[r])].op = "bind"
                    /\ ops[r][Len(ops[r])].dn = Dn(user[r])
                    /\ ops[r][Len(ops[r])].secret = inp[r].password
                    /\ ops[r][Len(ops[r])].res = "ok"
            /\ \A k \in Rebinds(r) :
                 ops[r][k].res \in BindErrors =>
                    /\ resp[r] # <<>>
                    /\ resp[r][1].status = 401
                    /\ resp[r][1].keys = {"error"}
                    /\ resp[r][1].error = "Invalid credentials"
                    /\ resp[r][1].details = <<>>

\* One request authenticated, the other denied after a re-bind that
\* failed for a reason other than a wrong password.
C4_Witness ==
    /\ pc[1] = "done" /\ resp[1] # <<>> /\ IsAuthenticated(resp[1][1])
    /\ pc[2] = "done" /\ Rebinds(2) # {}
    /\ ops[2][Len(ops[2])].res = "ProtocolError"

----------------------------------------------------------------------------
(* C5 *)

AuthNoRecord(r) == AuthSearchEnded(r) /\ pc[r] = "done" /\ seen[r] = {}

AuthRebindFailed(r) ==
    /\ kind[r] = "auth" /\ pc[r] = "done"
    /\ \E k \in Rebinds(r) : ops[r][k].res \in BindErrors

\* C5: of two AUTH runs on the same input, one ending because no record
\* was found and one because the re-bind failed, the responses agree in
\* status, shape and reason text.
C5_DeniedResponsesIdentical ==
    \A r1, r2 \in Reqs :
        (inp[r1] = inp[r2] /\ AuthNoRecord(r1) /\ AuthRebindFailed(r2)) =>
            Observable(resp[r1][1]) = Observable(resp[r2][1])

----------------------------------------------------------------------------
(* C6 *)

DeniedObservables ==
    {Observable(UserNotFound), Observable(InvalidCredentials)}
    \cup {Observable(VerifyNotFound(n)) : n \in 0..4}
    \cup {Observable(LookupNotFound(k)) : k \in {"debug", "simple"}}

\* C6: when the service bind fails, every handler answers once, with a 500
\* that carries the bind error and that differs in status, shape and text
\* from every not-found and invalid-credentials response.
C6_BindFailureIsInfrastructure ==
    \A r \in Reqs :
        ServiceBindFailed(r) =>
            /\ Len(resp[r]) = 1
            /\ resp[r][1].status = 500
            /\ "details" \in resp[r][1].keys
            /\ resp[r][1].details # <<>>
            /\ resp[r][1].error \notin {"User not found", "Invalid credentials", NotFoundText}
            /\ Observable(resp[r][1]) \notin DeniedObservables
            /\ Searches(r) = {} /\ Rebinds(r) = {}

C6_Witness ==
    \E r \in Reqs :
        /\ kind[r] = "auth" /\ ServiceBindFailed(r)
        /\ ops[r][1].res = "InvalidCredentials"
        /\ pc[r] = "done"

----------------------------------------------------------------------------
(* C7 *)

Dns(ids) == {Dn(id) : id \in ids}

\* A step of VERIFY in which a strategy's search fails.
StrategyFails(r) == kind[r] = "verify" /\ nfail'[r] = nfail[r] + 1

\* C7 as stated: a failing strategy leaves the accumulated set as it was.
C7_FailedStrategyAddsNothing ==
    [][\A r \in Reqs : StrategyFails(r) => allResults'[r] = allResults[r]]_vars

C7_NeverAnError ==
    \A r \in Reqs :
        (kind[r] = "verify" /\ pc[r] = "done" /\ ServiceBindOk(r)) =>
            /\ Cardinality(Searches(r)) = Len(Plan(r))
            /\ Len(resp[r]) = 1
            /\ resp[r][1].status = 200
            /\ resp[r][1].error # "LDAP server connection failed"

C7_FailureStep ==
    \A r \in Reqs :
        StrategyFails(r) =>
            /\ Dns(Range(allResults'[r]))
                 = Dns(Range(allResults[r])) \cup Dns(Range(entries[r]))
            /\ pc[r] = "search" => allResults'[r] = allResults[r]
            /\ IF strat[r] < Len(Plan(r))
               THEN /\ pc'[r] = "search"
                    /\ strat'[r] = strat[r] + 1
                    /\ ops'[r] = Append(ops[r], SearchOp(Plan(r)[strat[r] + 1].name,
                                                           Plan(r)[strat[r] + 1].filter))
                    /\ resp'[r] = <<>>
               ELSE /\ pc'[r] = "done"
                    /\ resp'[r] # <<>>
                    /\ resp'[r][1].status = 200

\* C7 (amended): a failing strategy is swallowed and contributes only the
\* entries delivered before the failure (none when client.search itself
\* returns the error); the next strategy's search is issued, every strategy
\* of the plan is searched, and the response is never the error response.
C7_FailedStrategySwallowed == []C7_NeverAnError /\ [][C7_FailureStep]_vars

\* Every strategy of a four-strategy plan failed, and the answer is a
\* profile built from the entries delivered before the failures.
C7_Witness ==
    \E r \in Reqs :
        /\ kind[r] = "verify" /\ pc[r] = "done"
        /\ Len(Plan(r)) = 4 /\ nfail[r] = 4
        /\ resp[r][1].verified = "true"

----------------------------------------------------------------------------
(* C8 *)

C8_NoDuplicateDn ==
    \A r \in Reqs :
        \A i, j \in 1..Len(allResults[r]) :
            i # j => Dn(allResults[r][i]) # Dn(allResults[r][j])

\* A step of VERIFY that accumulates the entries of one strategy.
Accumulates(r) ==
    /\ kind[r] = "verify"
    /\ pc[r] \in {"search", "stream"}
    /\ pc'[r] \in {"search", "done"}

C8_FirstOccurrenceStep ==
    \A r \in Reqs :
        Accumulates(r) =>
            LET old == allResults[r]
                new == allResults'[r]
                res == entries[r]
            IN  /\ Len(new) >= Len(old)
                /\ SubSeq(new, 1, Len(old)) = old
                /\ \A j \in (Len(old) + 1)..Len(new) :
                     \E i \in 1..Len(res) :
                        /\ res[i] = new[j]
                        /\ \A h \in 1..(i - 1) : Dn(res[h]) # Dn(res[i])
                /\ \A i \in 1..Len(res) : Dn(res[i]) \in Dns(Range(new))

\* C8: the accumulated set never holds two entries with one dn, and each
\* accumulation keeps what was there and adds, for a new dn, the first
\* entry that carries it.
C8_DedupFirstWins == []C8_NoDuplicateDn /\ [][C8_FirstOccurrenceStep]_vars

\* Records 1 and 3 share a dn; 3 came first and is kept, 1 was dropped.
C8_Witness ==
    \E r \in Reqs :
        /\ kind[r] = "verify" /\ pc[r] = "done"
        /\ allResults[r] = <<3, 2>>
        /\ 1 \in seen[r]

----------------------------------------------------------------------------
(* C9 *)

\* An email-bearing attribute of the record equals the email, ignoring case.
HasEmail(id, email) ==
    \E a \in {"mail", "userPrincipalName", "emailAddress", "email"} :
        /\ a \in DOMAIN Directory[id]
        /\ ToLowerCase(Directory[id][a]) = ToLowerCase(email)

VerifyAnswered(r) == kind[r] = "verify" /\ pc[r] = "done" /\ ServiceBindOk(r)

\* C9: every candidate with a matching email scores at least 100, and when
\* the candidate set holds one the selected record is one.
C9_EmailMatchWins ==
    \A r \in Reqs :
        VerifyAnswered(r) =>
            /\ \A id \in Range(allResults[r]) :
                 HasEmail(id, inp[r].email) =>
                    Rank(id, inp[r].email, inp[r].uid, inp[r].name).score >= 100
            /\ (\E id \in Range(allResults[r]) : HasEmail(id, inp[r].email)) =>
                    /\ resp[r][1].verified = "true"
                    /\ HasEmail(resp[r][1].user, inp[r].email)
                    /\ resp[r][1].score >= 100

\* Record 2 (uid and name match, score 75) was found first, record 1
\* (email match) second, and record 1 is selected.
C9_Witness ==
    \E r \in Reqs :
        /\ VerifyAnswered(r)
        /\ inp[r].email = EmailA /\ inp[r].uid = UidU /\ inp[r].name = NameAl
        /\ allResults[r] = <<2, 1>>
        /\ Rank(2, inp[r].email, inp[r].uid, inp[r].name).score = 75
        /\ resp[r][1].user = 1

----------------------------------------------------------------------------
(* C10 *)

IsResolver(r) == kind[r] \in {"verify", "debug", "simple"}

\* Every search the request issued ran to its end without an error.
SearchesCompleted(r) ==
    /\ ServiceBindOk(r) /\ pc[r] = "done"
    /\ kind[r] = "verify" \/ nfail[r] = 0

----------------------------------------------------------------------------
(* C11 *)

\* The characters RFC 4515 gives a meaning in a filter; Nul stands for the
\* null character.
Nul == "NUL"
IsMeta(c) == c \in {"\\", "(", ")", "*", Nul}
HexDigits == {"0", "1", "2", "3", "4", "5", "6", "7", "8", "9",
              "a", "b", "c", "d", "e", "f", "A", "B", "C", "D", "E", "F"}

\* The structure of a filter text: its metacharacters in order, an escape
\* (backslash and two hexadecimal digits) standing for a plain character.
RECURSIVE Structure(_)
Structure(f) ==
    IF f = <<>> THEN <<>>
    ELSE IF Head(f) = "\\" /\ Len(f) >= 3 /\ f[2] \in HexDigits /\ f[3] \in HexDigits
         THEN Structure(SubSeq(f, 4, Len(f)))
    ELSE IF IsMeta(Head(f)) THEN <<Head(f)>> \o Structure(Tail(f))
    ELSE Structure(Tail(f))

\* A value without metacharacters that is supplied exactly when v is.
Plain(v) == IF Truthy(v) THEN <<"x">> ELSE v

\* The filter the k-th operation of request r would carry for plain values.
PlainFilter(r, k) ==
    IF kind[r] = "auth" THEN loginFilter(Plain(inp[r].username))
    ELSE IF kind[r] = "verify"
         THEN searchStrategies(Plain(inp[r].email), Plain(inp[r].uid),
                               Plain(inp[r].name))[k - 1].filter
    ELSE mailFilter(Plain(inp[r].email))

\* C11: every filter sent to the directory has the structure its template
\* has for plain values: no metacharacter of a caller-supplied value (email,
\* user id, display name, username) reaches the filter unescaped.
C11_FiltersEscaped ==
    \A r \in Reqs : \A k \in DOMAIN ops[r] :
        ops[r][k].op = "search" =>
            Structure(ops[r][k].filter) = Structure(PlainFilter(r, k))
----------------------------------------------------------------------------
(* C12 *)

NameAttributes == {"cn", "displayName", "name", "givenName", "sn"}

LacksName(id) == \A a \in NameAttributes : Attr(id, a) = UNDEF

NonBlank(v) == v # UNDEF /\ Trim(v) # <<>>

\* The verified=true response of a finished resolver, << >> otherwise.
Verified(r) ==
    IF /\ kind[r] \in {"verify", "debug", "simple"}
       /\ pc[r] = "done"
       /\ resp[r] # <<>>
       /\ resp[r][Len(resp[r])].verified = "true"
    THEN <<resp[r][Len(resp[r])]>> ELSE <<>>

\* C12: a verified profile built from a record without any name-bearing
\* attribute carries the caller's display name when the caller sent a
\* non-blank one.
C12_CallerNameIsFallback ==
    \A r \in Reqs : \A v \in Range(Verified(r)) :
        (LacksName(v.user) /\ NonBlank(inp[r].name)) =>
            v.employee.name = inp[r].name
----------------------------------------------------------------------------
(* C13 *)

\* C13: every field of the profile of a verified=true result is a non-empty
\* string, never undefined and never empty.
C13_ProfileFieldsNonEmpty ==
    \A r \in Reqs : \A v \in Range(Verified(r)) :
        \A f \in DOMAIN v.employee :
            v.employee[f] # UNDEF /\ v.employee[f] # <<>>
----------------------------------------------------------------------------
(* C14 *)

\* The operations of a request that are in flight: a bind whose callback has
\* not arrived, and the search the handler is waiting on.
InFlight(r) ==
    {k \in 1..Len(ops[r]) :
        \/ ops[r][k].op = "bind" /\ ops[r][k].res = "pending"
        \/ ops[r][k].op = "search" /\ k = Len(ops[r]) /\ pc[r] \in {"search", "stream"}}

\* The log of a request: the service bind first; a search only under a
\* succeeded service bind and behind a completed operation; a re-bind only
\* behind a search; at most the latest operation in flight.
C14_Order ==
    \A r \in Reqs :
        /\ InFlight(r) \subseteq {Len(ops[r])}
        /\ \A k \in 1..Len(ops[r]) :
              /\ k = 1 => ops[r][k].op = "bind" /\ ops[r][k].dn = ServiceDn
              /\ ops[r][k].op = "search" =>
                    /\ ServiceBindOk(r)
                    /\ ops[r][k - 1].op \in {"bind", "search"}
              /\ k \in Rebinds(r) => ops[r][k - 1].op = "search"
              /\ ops[r][k].op = "unbind" => k = Len(ops[r])

\* A step issues at most one bind or search, and only while nothing but the
\* operation this step completes was in flight; a step that delivers an
\* entry issues nothing.
C14_IssueStep ==
    \A r \in Reqs :
        Len(ops'[r]) # Len(ops[r]) =>
            /\ Len(ops'[r]) > Len(ops[r])
            /\ Cardinality({k \in (Len(ops[r]) + 1)..Len(ops'[r]) :
                                ops'[r][k].op \in {"bind", "search"}}) <= 1
            /\ \A k \in 1..Len(ops[r]) : ops'[r][k].op = ops[r][k].op
            /\ InFlight(r) \subseteq {Len(ops[r])}
            /\ seen'[r] = seen[r]
            /\ Len(entries'[r]) <= Len(entries[r])

\* C14: the directory operations of a request are strictly ordered: a search
\* is issued only after the service bind succeeded, each strategy's search
\* only after the previous one ended, the re-bind only after the search
\* ended, and no two operations of a request are in flight at once.
C14_OperationsOrdered == []C14_Order /\ [][C14_IssueStep]_vars

\* The third search of a VERIFY request is in flight, the two before it over.
C14_Witness ==
    /\ kind[1] = "verify" /\ pc[1] = "stream" /\ strat[1] = 3
    /\ InFlight(1) = {4}
----------------------------------------------------------------------------
(* C15 *)

\* Everything the program holds for one request: its client, its locals, its
\* operations and its responses.
Slots(r) ==
    <<kind[r], inp[r], pc[r], conn[r], strat[r], entries[r], user[r], allResults[r],
      stale[r], nfail[r], seen[r], ops[r], resp[r]>>

\* A step changes what belongs to one request only.
C15_OwnStateStep ==
    \A r1, r2 \in Reqs :
        (Slots(r1)' # Slots(r1) /\ Slots(r2)' # Slots(r2)) => r1 = r2

\* What a request binds as and answers with comes from its own body and its
\* own search: the record is the last entry of its own stream, the re-bind
\* carries that record's dn and the request's own password, and the verdict
\* is the one these decide.
C15_OwnVerdict ==
    \A r \in Reqs :
        kind[r] = "auth" =>
            /\ user[r] # 0 => /\ entries[r] # <<>>
                              /\ user[r] = entries[r][Len(entries[r])]
            /\ \A k \in Rebinds(r) :
                  /\ ops[r][k].dn = Dn(user[r])
                  /\ ops[r][k].secret = inp[r].password
                  /\ ops[r][k].res # "pending" =>
                        resp[r] = <<RebindVerdict(ops[r][k].res, user[r])>>

----------------------------------------------------------------------------
(* C16 *)

\* The operations that failed: a bind the directory refused or that lost its
\* connection.
FailedOps(r) ==
    {k \in 1..Len(ops[r]) : ops[r][k].op = "bind" /\ ops[r][k].res \in BindErrors}

\* C16: nothing is retried or re-established within a call: behind a failed
\* bind or a lost connection the request's log holds no further bind, connect
\* or search, and the finished request has answered with the failure.
C16_NoRetry ==
    \A r \in Reqs : \A k \in FailedOps(r) :
        /\ \A j \in (k + 1)..Len(ops[r]) :
              ops[r][j].op \notin {"bind", "connect", "search"}
        /\ pc[r] = "done" => resp[r] # <<>> /\ resp[r][Len(resp[r])].status \in {401, 500}
----------------------------------------------------------------------------
(* C17 *)

\* Position of the strategy called n in plan p, 0 when p has none.
Position(p, n) ==
    IF \E k \in 1..Len(p) : p[k].name = n
    THEN CHOOSE k \in 1..Len(p) : p[k].name = n ELSE 0

\* C17: the plan of a VERIFY request is the email strategy, then the user-id
\* strategy exactly when a user id was supplied, then the name strategy
\* exactly when a display name was supplied, then the combined strategy; the
\* searches are issued in that order, one per strategy, each with the
\* strategy's filter.
C17_StrategyOrder ==
    \A r \in Reqs :
        (kind[r] = "verify" /\ Accepted(r)) =>
            LET p == Plan(r)
                hasUid == inp[r].uid # <<>>
                hasName == inp[r].name # <<>>
            IN  /\ Len(p) = 2 + (IF hasUid THEN 1 ELSE 0) + (IF hasName THEN 1 ELSE 0)
                /\ \A j, k \in 1..Len(p) : p[j].name = p[k].name => j = k
                /\ Position(p, "Email Search") = 1
                /\ Position(p, "Combined Search") = Len(p)
                /\ Position(p, "UID Search") = (IF hasUid THEN 2 ELSE 0)
                /\ Position(p, "Name Search") = (IF hasName THEN Len(p) - 1 ELSE 0)
                /\ \A k \in Searches(r) :
                      /\ k - 1 \in 1..Len(p)
                      /\ ops[r][k].res = p[k - 1].name
                      /\ ops[r][k].filter = p[k - 1].filter
                /\ (pc[r] = "done" /\ ServiceBindOk(r)) =>
                      Searches(r) = 2..(Len(p) + 1)

\* A request with user id and display name has run its four searches, none
\* of which failed.
C17_Witness ==
    /\ kind[1] = "verify" /\ pc[1] = "done" /\ nfail[1] = 0
    /\ inp[1].uid # <<>> /\ inp[1].name # <<>>
    /\ Searches(1) = 2..5
----------------------------------------------------------------------------
(* C18 *)

\* The three signals of a candidate, read off its attributes.
HasUid(id, uid) ==
    /\ uid # <<>>
    /\ \E a \in {"uid", "sAMAccountName", "username", "userId"} :
          Attr(id, a) # UNDEF /\ ToLowerCase(Attr(id, a)) = ToLowerCase(uid)

HasName(id, name) ==
    /\ name # <<>>
    /\ \E a \in {"cn", "displayName", "name"} :
          Attr(id, a) # UNDEF /\ Includes(ToLowerCase(Attr(id, a)), ToLowerCase(name))

Scores == {0, 25, 50, 75, 100, 125, 150, 175}

ExpectedScore(id, body) ==
    (IF HasEmail(id, body.email) THEN 100 ELSE 0)
    + (IF HasUid(id, body.uid) THEN 50 ELSE 0)
    + (IF HasName(id, body.name) THEN 25 ELSE 0)

ExpectedReasons(id, body) ==
    (IF HasEmail(id, body.email) THEN <<"exact email match">> ELSE <<>>)
    \o (IF HasUid(id, body.uid) THEN <<"exact UID match">> ELSE <<>>)
    \o (IF HasName(id, body.name) THEN <<"name match">> ELSE <<>>)

\* C18: the score of every candidate is 100 for an email signal plus 50 for
\* a user-id signal plus 25 for a name signal, one of the eight values of
\* Scores, and the reasons list names exactly the signals that contributed;
\* the response carries the selected record's score and reasons.
C18_ScoreIsSumOfSignals ==
    \A r \in Reqs :
        (kind[r] = "verify" /\ Accepted(r)) =>
            /\ \A id \in seen[r] :
                  LET ranked == Rank(id, inp[r].email, inp[r].uid, inp[r].name) IN
                  /\ ranked.score = ExpectedScore(id, inp[r])
                  /\ ranked.score \in Scores
                  /\ ranked.reasons = ExpectedReasons(id, inp[r])
            /\ \A v \in Range(Verified(r)) :
                  /\ v.score = ExpectedScore(v.user, inp[r])
                  /\ v.reasons = ExpectedReasons(v.user, inp[r])

\* The selected record has all three signals, and a candidate with the name
\* signal alone was ranked as well.
C18_Witness ==
    \E v \in Range(Verified(1)) :
        /\ kind[1] = "verify"
        /\ v.score = 175 /\ Len(v.reasons) = 3
        /\ \E id \in seen[1] : ExpectedScore(id, inp[1]) = 25
----------------------------------------------------------------------------
(* C19 *)

\* Position of record id in the candidate set, which is kept in the order
\* of discovery.
Discovered(all, id) == CHOOSE k \in 1..Len(all) : all[k] = id

\* C19: the candidates are ranked by descending score, candidates of equal
\* score in the order of their discovery, and the selected record is the
\* first discovered among the candidates of the highest score.
C19_RankedByScoreThenDiscovery ==
    \A r \in Reqs :
        (VerifyAnswered(r) /\ allResults[r] # <<>>) =>
            LET all == allResults[r]
                ranked == rankedResults(all, inp[r].email, inp[r].uid, inp[r].name)
                best == resp[r][1].user
            IN  /\ Len(ranked) = Len(all)
                /\ {ranked[k].employee : k \in 1..Len(ranked)} = Range(all)
                /\ \A i, j \in 1..Len(ranked) :
                      i < j =>
                        \/ ranked[i].score > ranked[j].score
                        \/ /\ ranked[i].score = ranked[j].score
                           /\ Discovered(all, ranked[i].employee)
                                < Discovered(all, ranked[j].employee)
                /\ best \in Range(all)
                /\ \A id \in Range(all) :
                      \/ ExpectedScore(id, inp[r]) < ExpectedScore(best, inp[r])
                      \/ /\ ExpectedScore(id, inp[r]) = ExpectedScore(best, inp[r])
                         /\ Discovered(all, best) <= Discovered(all, id)

\* Records 4 and 1 both score 100; record 4 was discovered first and is the
\* one selected.
C19_Witness ==
    /\ VerifyAnswered(1)
    /\ allResults[1] = <<4, 1>>
    /\ ExpectedScore(4, inp[1]) = ExpectedScore(1, inp[1])
    /\ resp[1][1].user = 4
----------------------------------------------------------------------------
(* C20 *)

\* The first value of a list that is present and not blank once trimmed,
\* UNDEF when the list has none.
RECURSIVE FirstNonBlank(_)
FirstNonBlank(cands) ==
    IF cands = <<>> THEN UNDEF
    ELSE IF NonBlank(Head(cands)) THEN Head(cands)
    ELSE FirstNonBlank(Tail(cands))

\* The candidates a record offers for the name, in the order of precedence:
\* cn, displayName, name, given name and surname joined by a space.
NameCandidates(id) ==
    <<Attr(id, "cn"), Attr(id, "displayName"), Attr(id, "name"),
      Trim((IF Attr(id, "givenName") = UNDEF THEN <<>> ELSE Attr(id, "givenName"))
           \o <<" ">>
           \o (IF Attr(id, "sn") = UNDEF THEN <<>> ELSE Attr(id, "sn")))>>

\* C20: the name of a verified profile is the first of the record's
\* candidates cn, displayName, name, composed name that is present and not
\* blank after trimming; a blank value is skipped, and a record with cn and
\* displayName resolves to cn.
C20_NameByPrecedence ==
    \A r \in Reqs : \A v \in Range(Verified(r)) :
        LET c == FirstNonBlank(NameCandidates(v.user)) IN
        c # UNDEF => v.employee.name \in {c, Trim(c)}
----------------------------------------------------------------------------
(* C21 *)

\* The stream of a resolver's search is ended by an 'error' event after it
\* delivered entries.  The
\* handler of ldap-verify.js treats every error alike; the handlers of
\* part_001 report the error, which tells a limit from another failure.
LimitTerminates(r) ==
    /\ IsResolver(r) /\ pc[r] = "stream" /\ entries[r] # <<>>
    /\ nfail'[r] = nfail[r] + 1
    /\ kind[r] = "verify" \/ resp'[r][Len(resp'[r])].details[1] \in LimitErrors

\* The entries delivered so far stay the search's result and the request
\* goes on: to the next search, or to a response that is not a failure and
\* is a profile when a record was delivered.
KeepsPartial(r) ==
    /\ kind[r] = "verify" => Dns(Range(entries[r])) \subseteq Dns(Range(allResults'[r]))
    /\ pc'[r] \in {"search", "done"}
    /\ pc'[r] = "done" =>
          /\ resp'[r][Len(resp'[r])].status = 200
          /\ resp'[r][Len(resp'[r])].verified = "true"

\* C21: a search the directory terminates because a size or time limit was
\* exceeded keeps the entries delivered before the termination as its
\* result, and the request continues; it does not fail because of the limit.
C21_LimitKeepsPartial == [][\A r \in Reqs : LimitTerminates(r) => KeepsPartial(r)]_vars
----------------------------------------------------------------------------
(* C22 *)

\* The last entry a request's search delivered.
LastDelivered(r) == entries[r][Len(entries[r])]

\* C22: in the authentication handler the one re-bind of a request carries
\* the dn of the last entry its search delivered and the caller's password,
\* whatever was delivered before it, and a success returns that last entry.
C22_LastEntryIsBound ==
    \A r \in Reqs :
        kind[r] = "auth" =>
            /\ Cardinality(Rebinds(r)) <= 1
            /\ \A k \in Rebinds(r) :
                  /\ entries[r] # <<>>
                  /\ ops[r][k].dn = Dn(LastDelivered(r))
                  /\ ops[r][k].secret = inp[r].password
            /\ \A k \in 1..Len(resp[r]) :
                  IsAuthenticated(resp[r][k]) =>
                      /\ Rebinds(r) # {}
                      /\ resp[r][k].user = LastDelivered(r)

\* The search delivered record 2 and then record 1; the request re-bound as
\* d1, never as d2, and returns record 1.
C22_Witness ==
    /\ kind[1] = "auth" /\ pc[1] = "done"
    /\ entries[1] = <<2, 1>>
    /\ \A k \in Rebinds(1) : ops[1][k].dn = DnOne
    /\ resp[1] = <<AuthSuccess(1)>>
----------------------------------------------------------------------------
(* C23 *)

\* The request a handler has received fails its input validation: the
\* method is not POST, a resolver got no email, or the authentication
\* handler got no username or no password.
Invalid(r) ==
    /\ kind[r] # "none"
    /\ \/ inp[r].method # "POST"
       \/ IsResolver(r) /\ inp[r].email = <<>>
       \/ kind[r] = "auth" /\ (inp[r].username = <<>> \/ inp[r].password = <<>>)

\* C23: a request rejected by input validation is answered, once, without
\* any directory interaction: no client is created for it and no bind or
\* search is issued.
C23_RejectedTouchesNothing ==
    \A r \in Reqs :
        Invalid(r) =>
            /\ conn[r] = "NoClient"
            /\ ops[r] = <<>>
            /\ seen[r] = {}
            /\ pc[r] = "done"
            /\ Len(resp[r]) = 1
            /\ resp[r][1].status =
                  (IF inp[r].method = "OPTIONS" THEN 200
                   ELSE IF inp[r].method # "POST" THEN 405 ELSE 400)

\* A VERIFY request without email has been answered 400 with nothing issued.
C23_Witness ==
    /\ kind[1] = "verify" /\ inp[1].method = "POST" /\ inp[1].email = <<>>
    /\ resp[1] = <<MissingEmail>>
    /\ ops[1] = <<>> /\ conn[1] = "NoClient"
====
